---- MODULE Spec2Model ----
(***************************************************************************)
(* A model of flask_httpauth.py: the Basic, Digest and Token               *)
(* authenticators, the role mixin, the multi-scheme dispatcher and the     *)
(* login_required decorators.                                              *)
(*                                                                         *)
(* A Python str is a sequence of text chunks (each chunk a piece of text   *)
(* without whitespace, " " a whitespace character), so that concatenation  *)
(* is \o, the empty string is <<>> and str.split can be computed.          *)
(***************************************************************************)
EXTENDS Integers, Sequences, FiniteSets, TLC

VARIABLES
    app,        \* what the application set up: authenticators and decoration
    session,    \* flask.session: auth_nonce and auth_opaque
    request,    \* the request being handled
    result,     \* what the decorated endpoint did with the request
    generated,  \* the nonce and opaque of the latest challenge emitted
    accepted    \* the Digest credentials accepted since the latest challenge

vars == <<app, session, request, result, generated, accepted>>

(***************************************************************************)
(* Python values                                                           *)
(***************************************************************************)

\* Python's None where a str may stand: a value no str of the model equals.
None == <<"<None>">>

\* bool(x) is False for None and for the empty str.
Falsy(x) == x = None \/ x = <<>>

Str(c) == <<c>>

\* str.lower on one chunk.
LowerChunk(c) ==
    CASE c = "Basic" -> "basic"
      [] c = "BASIC" -> "basic"
      [] c = "Digest" -> "digest"
      [] c = "Bearer" -> "bearer"
      [] OTHER -> c

\* str.lower
Lower(s) == [i \in 1..Len(s) |-> LowerChunk(s[i])]

RECURSIVE LStrip(_)
\* the str without its leading whitespace
LStrip(s) ==
    IF s # <<>> /\ Head(s) = " " THEN LStrip(Tail(s)) ELSE s

RECURSIVE FirstWord(_)
\* the leading run of non-whitespace chunks
FirstWord(s) ==
    IF s = <<>> \/ Head(s) = " " THEN <<>> ELSE <<Head(s)>> \o FirstWord(Tail(s))

\* str.split(None, 1): at most two parts, split at the first run of whitespace;
\* no part is empty.
Split1(s) ==
    LET body == LStrip(s)
        word == FirstWord(body)
        rest == LStrip(SubSeq(body, Len(word) + 1, Len(body)))
    IN  IF body = <<>> THEN <<>>
        ELSE IF rest = <<>> THEN <<word>>
        ELSE <<word, rest>>

\* hashlib.md5(x).hexdigest(), taken to be free of collisions: the digests of
\* two strs are equal only if the strs are.
md5(x) == <<"md5(">> \o x \o <<")">>

\* werkzeug.security.safe_str_cmp
safe_str_cmp(a, b) == a = b

\* An evaluation either returns a bool or raises.
Return(v) == [exc |-> "", val |-> v]
Raise(e) == [exc |-> e, val |-> FALSE]
Skipped == [exc |-> "skipped", val |-> FALSE]
Returned(r, v) == r.exc = "" /\ r.val = v

(***************************************************************************)
(* werkzeug.datastructures.Authorization                                   *)
(***************************************************************************)

AuthKeys == {"username", "password", "realm", "uri", "nonce", "response",
             "opaque", "token"}

\* Authorization(auth_type, data): a dict of the data with a type; a key the
\* data lacks reads as None through the attribute getters.
Authorization(auth_type, data) ==
    [k \in AuthKeys \cup {"type"} |->
        IF k = "type" THEN auth_type
        ELSE IF k \in DOMAIN data THEN data[k] ELSE None]

\* auth is None
NoAuth == [k \in AuthKeys \cup {"type"} |-> None]

\* No Authorization header in request.headers.
NoHeader == None

\* request.authorization: werkzeug parses a Basic or a Digest header, whose
\* decoded fields are request.creds, and yields None for anything else.
authorization(req) ==
    IF req.header = NoHeader THEN NoAuth
    ELSE LET parts == Split1(req.header)
         IN  IF Len(parts) # 2 THEN NoAuth
             ELSE IF Lower(parts[1]) = Str("basic") /\ req.creds.kind = "basic"
                  THEN Authorization(Str("basic"), req.creds.data)
             ELSE IF Lower(parts[1]) = Str("digest") /\ req.creds.kind = "digest"
                  THEN Authorization(Str("digest"), req.creds.data)
             ELSE NoAuth

(***************************************************************************)
(* Callbacks                                                               *)
(*                                                                         *)
(* A registered callback is data: the lookup callback is the function it   *)
(* computes, a verify callback the set of arguments it accepts, the hash   *)
(* callback one of a few hash functions.  The role resolver's result is an *)
(* input of the request.                                                   *)
(***************************************************************************)

\* default_get_password: None for every username.  A lookup callback is the
\* set of its <<username, secret>> pairs, and returns None for other usernames.
default_get_password == {}

\* self.get_password_callback(username)
get_password_callback(self, username) ==
    IF \E p \in self.users : p[1] = username
    THEN (CHOOSE p \in self.users : p[1] = username)[2]
    ELSE None

Unregistered == [registered |-> FALSE, accepts |-> {}]
Callback(args) == [registered |-> TRUE, accepts |-> args]

\* The hash_password callbacks of the model: "md5" is hash(password),
\* "salted" is hash(username, password), "none" is a hash(password) that
\* returns None; "" is no callback.  The one-argument call of a two-argument
\* callback raises TypeError, and the two-argument call is made instead.
hash_password_callback(self, username, client_password) ==
    CASE self.hash_password = "md5" -> md5(client_password)
      [] self.hash_password = "salted" -> md5(username \o client_password)
      [] OTHER -> None

(***************************************************************************)
(* HTTPAuth                                                                *)
(***************************************************************************)

\* HTTPAuth.__init__ and the subclasses' __init__: the fields of an
\* authenticator with nothing registered.
HTTPAuth(cls, scheme) ==
    [cls |-> cls, role |-> FALSE, scheme |-> scheme,
     realm |-> Str("Authentication Required"),
     users |-> default_get_password,
     error_status |-> 200, error_has_header |-> FALSE,
     hash_password |-> "", verify_password |-> Unregistered,
     use_ha1_pw |-> FALSE,
     verify_token |-> Unregistered,
     get_auth_roles |-> FALSE]

HTTPBasicAuth == HTTPAuth("Basic", Str("Basic"))
HTTPDigestAuth(use_ha1_pw) ==
    [HTTPAuth("Digest", Str("Digest")) EXCEPT !.use_ha1_pw = use_ha1_pw]
HTTPTokenAuth(scheme) == HTTPAuth("Token", scheme)

\* HTTPRoleAuthMixin.__init__ over a scheme class; get_auth_roles registers
\* the role resolver.
HTTPRoleAuthMixin(auth, registered) ==
    [auth EXCEPT !.role = TRUE, !.get_auth_roles = registered]

\* HTTPAuth.get_auth
get_auth(self, req) ==
    LET parsed == authorization(req)
        parts == IF req.header = NoHeader THEN <<>> ELSE Split1(req.header)
        auth == IF parsed = NoAuth /\ req.header # NoHeader
                THEN IF Len(parts) = 2
                     THEN Authorization(parts[1], [token |-> parts[2]])
                     ELSE NoAuth
                ELSE parsed
    IN  IF auth # NoAuth /\ Lower(auth.type) # Lower(self.scheme)
        THEN NoAuth
        ELSE auth

\* HTTPAuth.get_auth_password
get_auth_password(self, auth) ==
    IF auth # NoAuth /\ ~Falsy(auth.username)
    THEN get_password_callback(self, auth.username)
    ELSE None

(***************************************************************************)
(* HTTPBasicAuth                                                           *)
(***************************************************************************)

\* HTTPBasicAuth.authenticate comparing the password as the client sent it,
\* the hash_password callback left out.
authenticate_unhashed(self, auth, stored_password) ==
    IF self.verify_password.registered
    THEN Return(<<IF auth # NoAuth THEN auth.username ELSE <<>>,
                  IF auth # NoAuth THEN auth.password ELSE <<>> >>
                \in self.verify_password.accepts)
    ELSE IF auth = NoAuth THEN Return(FALSE)
    ELSE Return(/\ auth.password # None
                /\ stored_password # None
                /\ safe_str_cmp(auth.password, stored_password))

\* HTTPBasicAuth.authenticate
HTTPBasicAuth_authenticate(self, auth, stored_password) ==
    LET username == IF auth # NoAuth THEN auth.username ELSE <<>>
        password == IF auth # NoAuth THEN auth.password ELSE <<>>
        client_password ==
            IF self.hash_password # ""
            THEN hash_password_callback(self, username, password)
            ELSE password
    IN  IF self.verify_password.registered
        THEN Return(<<username, password>> \in self.verify_password.accepts)
        ELSE IF auth = NoAuth THEN Return(FALSE)
        ELSE Return(/\ client_password # None
                    /\ stored_password # None
                    /\ safe_str_cmp(client_password, stored_password))

(***************************************************************************)
(* HTTPDigestAuth                                                          *)
(***************************************************************************)

\* session with nothing stored.
EmptySession == [auth_nonce |-> None, auth_opaque |-> None]

\* default_verify_nonce
default_verify_nonce(sess, nonce) ==
    LET session_nonce == sess.auth_nonce
    IN  IF nonce = None \/ session_nonce = None THEN FALSE
        ELSE safe_str_cmp(nonce, session_nonce)

\* default_verify_opaque
default_verify_opaque(sess, opaque) ==
    LET session_opaque == sess.auth_opaque
    IN  IF opaque = None \/ session_opaque = None THEN FALSE
        ELSE safe_str_cmp(opaque, session_opaque)

\* default_generate_nonce handing out the value without storing it.
generate_nonce_unstored(sess, random) == sess

\* default_generate_nonce: the session after storing the random value.
default_generate_nonce(sess, random) == [sess EXCEPT !.auth_nonce = random]

\* default_generate_opaque
default_generate_opaque(sess, random) == [sess EXCEPT !.auth_opaque = random]

\* HTTPDigestAuth.generate_ha1
generate_ha1(self, username, password) ==
    md5(username \o Str(":") \o self.realm \o Str(":") \o password)

\* HTTPDigestAuth.authenticate
HTTPDigestAuth_authenticate(self, auth, stored_password_or_ha1, req, sess) ==
    IF \/ auth = NoAuth \/ Falsy(auth.username) \/ Falsy(auth.realm)
       \/ Falsy(auth.uri) \/ Falsy(auth.nonce) \/ Falsy(auth.response)
       \/ Falsy(stored_password_or_ha1)
    THEN Return(FALSE)
    ELSE IF \/ ~default_verify_nonce(sess, auth.nonce)
            \/ ~default_verify_opaque(sess, auth.opaque)
    THEN Return(FALSE)
    ELSE LET ha1 == IF self.use_ha1_pw THEN stored_password_or_ha1
                    ELSE md5(auth.username \o Str(":") \o auth.realm
                             \o Str(":") \o stored_password_or_ha1)
             ha2 == md5(req.method \o Str(":") \o auth.uri)
             response == md5(ha1 \o Str(":") \o auth.nonce \o Str(":") \o ha2)
         IN  Return(safe_str_cmp(response, auth.response))

(***************************************************************************)
(* HTTPTokenAuth                                                           *)
(***************************************************************************)

\* HTTPTokenAuth.authenticate returning False at once when no credential was
\* supplied.
authenticate_token_required(self, auth) ==
    IF auth = NoAuth THEN Return(FALSE)
    ELSE IF auth.token = None THEN Raise("KeyError")
    ELSE IF self.verify_token.registered
    THEN Return(auth.token \in self.verify_token.accepts)
    ELSE Return(FALSE)

\* HTTPTokenAuth.authenticate: auth['token'] raises KeyError for a credential
\* without a token (one that werkzeug parsed as Basic or Digest).
HTTPTokenAuth_authenticate(self, auth) ==
    IF auth # NoAuth /\ auth.token = None THEN Raise("KeyError")
    ELSE LET token == IF auth # NoAuth THEN auth.token ELSE <<>>
         IN  IF self.verify_token.registered
             THEN Return(token \in self.verify_token.accepts)
             ELSE Return(FALSE)

\* self.authenticate(auth, stored_password), by the class of self.
authenticate(self, auth, stored_password, req, sess) ==
    CASE self.cls = "Basic" -> HTTPBasicAuth_authenticate(self, auth, stored_password)
      [] self.cls = "Digest" ->
            HTTPDigestAuth_authenticate(self, auth, stored_password, req, sess)
      [] OTHER -> HTTPTokenAuth_authenticate(self, auth)

(***************************************************************************)
(* HTTPRoleAuthMixin                                                       *)
(***************************************************************************)

\* roles=None, the default of login_required, and roles given as a collection.
NoRoles == [none |-> TRUE, roles |-> {}]
RolesOf(S) == [none |-> FALSE, roles |-> S]

\* all(role in endpoint_roles for role in auth_roles): `in` raises TypeError
\* on None, at the first role tested.
all_in(auth_roles, endpoint_roles) ==
    IF auth_roles = {} THEN Return(TRUE)
    ELSE IF endpoint_roles.none THEN Raise("TypeError")
    ELSE Return(\A role \in auth_roles : role \in endpoint_roles.roles)

\* any(role in endpoint_roles for role in auth_roles)
any_in(auth_roles, endpoint_roles) ==
    IF auth_roles = {} THEN Return(FALSE)
    ELSE IF endpoint_roles.none THEN Raise("TypeError")
    ELSE Return(\E role \in auth_roles : role \in endpoint_roles.roles)

\* HTTPRoleAuthMixin.authorize; auth_roles is what the get_auth_roles
\* callback returns for auth.  Calling the callback when none is registered
\* (it is None) raises TypeError.
authorize(self, auth, endpoint_roles, use_all, auth_roles) ==
    IF auth = NoAuth THEN Return(FALSE)
    ELSE IF ~self.get_auth_roles THEN Raise("TypeError")
    ELSE IF use_all THEN all_in(auth_roles, endpoint_roles)
    ELSE any_in(auth_roles, endpoint_roles)

\* verify with both operands evaluated before they are combined.
verify_eager(self, auth, stored_password, req, sess, roles, use_all, auth_roles) ==
    [authn |-> authenticate(self, auth, stored_password, req, sess),
     authz |-> authorize(self, auth, roles, use_all, auth_roles)]

\* verify, of HTTPRoleAuthMixin.login_required: `and` evaluates authorize
\* only when authenticate returned true.  The pair of both evaluations.
verify(self, auth, stored_password, req, sess, roles, use_all, auth_roles) ==
    LET authn == authenticate(self, auth, stored_password, req, sess)
    IN  [authn |-> authn,
         authz |-> IF Returned(authn, TRUE)
                   THEN authorize(self, auth, roles, use_all, auth_roles)
                   ELSE Skipped]

(***************************************************************************)
(* MultiAuth                                                               *)
(***************************************************************************)

\* first_match comparing the schemes without regard to case, as get_auth does.
first_match_lower(additional_auth, scheme) ==
    IF \E i \in 1..Len(additional_auth) :
            Lower(additional_auth[i].scheme) = Lower(scheme)
    THEN CHOOSE i \in 1..Len(additional_auth) :
            /\ Lower(additional_auth[i].scheme) = Lower(scheme)
            /\ \A j \in 1..(i - 1) :
                    Lower(additional_auth[j].scheme) # Lower(scheme)
    ELSE 0

\* The index in additional_auth of the first authenticator whose scheme is
\* the scheme given, 0 if there is none.
first_match(additional_auth, scheme) ==
    IF \E i \in 1..Len(additional_auth) : additional_auth[i].scheme = scheme
    THEN CHOOSE i \in 1..Len(additional_auth) :
            /\ additional_auth[i].scheme = scheme
            /\ \A j \in 1..(i - 1) : additional_auth[j].scheme # scheme
    ELSE 0

\* MultiAuth.selected_auth, as an index: 0 is main_auth, i > 0 is
\* additional_auth[i].
selected_auth(multi, req) ==
    IF req.header = NoHeader THEN 0
    ELSE LET parts == Split1(req.header)
         IN  IF Len(parts) # 2 THEN 0
             ELSE first_match(multi.additional_auth, parts[1])

\* The authenticator of an index.
auth_at(multi, i) == IF i = 0 THEN multi.main_auth ELSE multi.additional_auth[i]

(***************************************************************************)
(* The decorated endpoint                                                  *)
(*                                                                         *)
(* app is what the application set up: an authenticator, or a MultiAuth or *)
(* MultiRoleAuth over several, and the way login_required was applied to   *)
(* the endpoint: func is TRUE for @login_required (the function passed     *)
(* positionally), FALSE for @login_required(roles=..., use_all=...).       *)
(***************************************************************************)

App(cls, main_auth, additional_auth, func, roles, use_all) ==
    [cls |-> cls, main_auth |-> main_auth, additional_auth |-> additional_auth,
     func |-> func, roles |-> roles, use_all |-> use_all]

\* The decorated function of HTTPAuth.error_handler: the status of the
\* response (401 unless the callback set one) and whether authenticate_header
\* is called for the WWW-Authenticate header (not when the callback set it).
auth_error_callback(self) ==
    [status |-> IF self.error_status = 200 THEN 401 ELSE self.error_status,
     challenge |-> ~self.error_has_header]

\* What one call of a decorated endpoint did: the authenticator selected, the
\* credential, the stored secret, the evaluations of authenticate and
\* authorize, and the outcome: "handler" (f was called), "response" (the
\* error response was returned) or "error" (an exception left decorated).
Outcome(i, auth, password, v, self) ==
    LET outcome ==
            IF v.authn.exc \notin {"", "skipped"} \/ v.authz.exc \notin {"", "skipped"}
            THEN "error"
            ELSE IF v.authn.exc = "skipped"
                    \/ (v.authn.val /\ (v.authz.exc = "skipped" \/ v.authz.val))
            THEN "handler"
            ELSE "response"
        sent == outcome = "response"
    IN  [selected |-> i, auth |-> auth, password |-> password,
         authn |-> v.authn, authz |-> v.authz, outcome |-> outcome,
         status |-> IF sent THEN auth_error_callback(self).status ELSE 0,
         challenge |-> sent /\ auth_error_callback(self).challenge]

\* decorated, of HTTPRoleAuthMixin.login_required, deciding by authenticate
\* alone.
decorated_without_authorize(self, i, req, sess, roles, use_all, auth_roles) ==
    LET auth == get_auth(self, req)
        password == get_auth_password(self, auth)
    IN  IF req.method # Str("OPTIONS")
        THEN Outcome(i, auth, password,
                     [authn |-> authenticate(self, auth, password, req, sess),
                      authz |-> Skipped], self)
        ELSE Outcome(i, auth, None, [authn |-> Skipped, authz |-> Skipped], self)

\* decorated, of HTTPAuth.login_required: authenticate alone decides.
HTTPAuth_decorated(self, i, req, sess) ==
    LET auth == get_auth(self, req)
        password == get_auth_password(self, auth)
    IN  IF req.method # Str("OPTIONS")
        THEN Outcome(i, auth, password,
                     [authn |-> authenticate(self, auth, password, req, sess),
                      authz |-> Skipped], self)
        ELSE Outcome(i, auth, None, [authn |-> Skipped, authz |-> Skipped], self)

\* decorated, of HTTPRoleAuthMixin.login_required: verify decides.
HTTPRoleAuthMixin_decorated(self, i, req, sess, roles, use_all, auth_roles) ==
    LET auth == get_auth(self, req)
        password == get_auth_password(self, auth)
    IN  IF req.method # Str("OPTIONS")
        THEN Outcome(i, auth, password,
                     verify(self, auth, password, req, sess, roles, use_all, auth_roles),
                     self)
        ELSE Outcome(i, auth, None, [authn |-> Skipped, authz |-> Skipped], self)

\* The endpoint as decorated by login_required of the app's authenticator:
\* HTTPAuth.login_required, HTTPRoleAuthMixin.login_required,
\* MultiAuth.login_required or MultiRoleAuth.login_required.
login_required(a, req, sess, auth_roles) ==
    LET i == IF a.cls = "single" THEN 0 ELSE selected_auth(a, req)
        self == auth_at(a, i)
    IN  IF a.func
        THEN HTTPAuth_decorated(self, i, req, sess)
        ELSE HTTPRoleAuthMixin_decorated(self, i, req, sess, a.roles, a.use_all,
                                         auth_roles)

\* HTTPDigestAuth.authenticate_header: get_nonce, then get_opaque, each
\* storing a fresh random value in the session.
authenticate_header(sess, nonce, opaque) ==
    default_generate_opaque(default_generate_nonce(sess, nonce), opaque)

\* The authenticator that handled the request.
Selected(a, res) == auth_at(a, res.selected)

\* authenticate_header run for every answer of a Digest authenticator, the
\* handler's too: a nonce good for one request.
challenged_on_success(a, res) ==
    /\ res.outcome \in {"response", "handler"}
    /\ Selected(a, res).cls = "Digest"

\* authenticate_header of a Digest authenticator ran for the response.
Challenged(a, res) ==
    /\ res.outcome = "response"
    /\ res.challenge
    /\ Selected(a, res).cls = "Digest"

\* A Digest authenticator's authenticate returned true for the request.
DigestAccepted(a, res) ==
    Selected(a, res).cls = "Digest" /\ Returned(res.authn, TRUE)

\* What a client replays of a request, the credentials and the method, and
\* whether the request was itself a replay of one accepted before.
Replayable(req, before) ==
    [creds |-> req.creds, method |-> req.method,
     again |-> \E a \in before : a.creds = req.creds /\ a.method = req.method]

(***************************************************************************)
(* State                                                                   *)
(***************************************************************************)

NoCreds == [kind |-> "none", data |-> <<>>]
BasicCreds(username, password) ==
    [kind |-> "basic", data |-> [username |-> username, password |-> password]]
DigestCreds(username, realm, uri, nonce, response, opaque) ==
    [kind |-> "digest",
     data |-> [username |-> username, realm |-> realm, uri |-> uri,
               nonce |-> nonce, response |-> response, opaque |-> opaque]]

\* A request: its method and path, the Authorization header (NoHeader when
\* absent) and the fields werkzeug decodes from a Basic or Digest header.
Request(method, path, header, creds) ==
    [method |-> method, path |-> path, header |-> header, creds |-> creds]

NoRequest == Request(None, None, NoHeader, NoCreds)

NoResult ==
    [selected |-> 0, auth |-> NoAuth, password |-> None, authn |-> Skipped,
     authz |-> Skipped, outcome |-> "none", status |-> 0, challenge |-> FALSE,
     auth_roles |-> {}]

\* The number of distinct values _generate_random yields in the model.
MaxRandom == 2

\* _generate_random: the hex digest of a random number, one of MaxRandom strs.
Randoms == {[k \in 1..i |-> "r"] : i \in 1..MaxRandom}

NothingGenerated == [nonce |-> None, opaque |-> None]

\* The state after construction and set-up, with a first request (or none
\* yet) and a fresh session.
InitOf(apps, requests) ==
    /\ app \in apps
    /\ session = EmptySession
    /\ request \in requests
    /\ result = NoResult
    /\ generated = NothingGenerated
    /\ accepted = {}

RoleNames == {"a", "b"}

\* What the role resolver may return when decorated asks it: any set of
\* roles.  It is asked only if authorize is evaluated.
ResolverResults(a, req, sess) ==
    IF login_required(a, req, sess, {}).authz.exc = "skipped"
    THEN {{}}
    ELSE SUBSET RoleNames

\* A request arrives, the one before it (if any) having been answered.
Receive(req) ==
    /\ request = NoRequest \/ result # NoResult
    /\ request' = req
    /\ result' = NoResult
    /\ UNCHANGED <<app, session, generated, accepted>>

\* The decorated endpoint runs on the request, start to end.  auth_roles is
\* what the role resolver returns for its credential; nonce and opaque are
\* the random values drawn when a Digest challenge is emitted.
Serve ==
    /\ request # NoRequest
    /\ result = NoResult
    /\ \E auth_roles \in ResolverResults(app, request, session) :
        LET res == login_required(app, request, session, auth_roles)
        IN  /\ result' = [k \in DOMAIN res \cup {"auth_roles"} |->
                            IF k = "auth_roles" THEN auth_roles ELSE res[k]]
            /\ IF Challenged(app, res)
               THEN \E nonce \in Randoms, opaque \in Randoms :
                        /\ session' = authenticate_header(session, nonce, opaque)
                        /\ generated' = [nonce |-> nonce, opaque |-> opaque]
                        /\ accepted' = {}
               ELSE /\ UNCHANGED <<session, generated>>
                    /\ accepted' = IF DigestAccepted(app, res)
                                   THEN accepted \cup {Replayable(request, accepted)}
                                   ELSE accepted
    /\ UNCHANGED <<app, request>>

(***************************************************************************)
(* Set-ups and requests                                                    *)
(***************************************************************************)

\* A lookup callback: john's secret, and a secret for the empty username.
users_db == {<<Str("john"), Str("hello")>>, <<<<>>, Str("hello")>>}

Realm == Str("Authentication Required")

\* The response a Digest client computes for a challenge.
ClientResponse(username, realm, password, method, uri, nonce) ==
    md5(md5(username \o Str(":") \o realm \o Str(":") \o password)
        \o Str(":") \o nonce \o Str(":") \o md5(method \o Str(":") \o uri))

BasicHeader == <<"Basic", " ", "am9objpoZWxsbw==">>
DigestHeader == <<"Digest", " ", "username=...">>
BearerHeader(token) == <<"Bearer", " ">> \o token

john_basic == HTTPRoleAuthMixin([HTTPBasicAuth EXCEPT !.users = users_db], TRUE)
john_token ==
    HTTPRoleAuthMixin([HTTPTokenAuth(Str("Bearer")) EXCEPT
                          !.verify_token = Callback({Str("xyz")})], TRUE)
john_digest ==
    HTTPRoleAuthMixin([HTTPDigestAuth(FALSE) EXCEPT !.users = users_db], TRUE)

\* @login_required, and @login_required(roles=..., use_all=...) with roles
\* left at its default or given.
Decorations ==
    {<<TRUE, NoRoles, FALSE>>}
    \cup {<<FALSE, roles, use_all>> :
            roles \in {NoRoles} \cup {RolesOf(S) : S \in SUBSET RoleNames},
            use_all \in BOOLEAN}

\* Role-aware set-ups: each scheme with the mixin, with and without a role
\* resolver registered, and a MultiRoleAuth over Basic and Token.
RoleApps ==
    {App("single", [self EXCEPT !.get_auth_roles = registered], <<>>,
         d[1], d[2], d[3]) :
        self \in {john_basic, john_token, john_digest},
        registered \in BOOLEAN, d \in Decorations}
    \cup {App("MultiRoleAuth", john_basic, <<john_token>>, d[1], d[2], d[3]) :
            d \in Decorations}

\* Every header shape: absent, empty, a scheme with no credentials, a
\* well-formed header of each scheme with a right or a wrong credential.
RoleRequests ==
    {Request(method, Str("/"), hc[1], hc[2]) :
        method \in {Str("GET"), Str("OPTIONS")},
        hc \in {<<NoHeader, NoCreds>>, <<<<>>, NoCreds>>,
                <<<<"Basic">>, NoCreds>>,
                <<BasicHeader, BasicCreds(Str("john"), Str("hello"))>>,
                <<BasicHeader, BasicCreds(Str("john"), Str("bye"))>>,
                <<BasicHeader, NoCreds>>,
                <<BearerHeader(Str("xyz")), NoCreds>>,
                <<BearerHeader(Str("abc")), NoCreds>>}
               \cup {<<DigestHeader,
                       DigestCreds(Str("john"), Realm, Str("/"), nonce,
                                   ClientResponse(Str("john"), Realm, Str("hello"),
                                                  Str("GET"), Str("/"), nonce),
                                   opaque)>> :
                      nonce \in Randoms, opaque \in Randoms}}

InitRole == InitOf(RoleApps, {NoRequest})

NextRole == Serve \/ \E req \in RoleRequests : Receive(req)

\* Requests to an endpoint protected by a role-aware authenticator.
SpecRole == InitRole /\ [][NextRole]_vars

(***************************************************************************)
(* Claims about the role-aware endpoint, under SpecRole                    *)
(***************************************************************************)

\* A request has been handled.
Handled == result # NoResult

\* The endpoint is decorated with required roles configured.
RolesConfigured == ~app.func /\ ~app.roles.none

\* Every authenticator of the set-up has a role resolver registered.
ResolverRegistered ==
    /\ app.main_auth.get_auth_roles
    /\ \A i \in 1..Len(app.additional_auth) : app.additional_auth[i].get_auth_roles

BothTrue == Returned(result.authn, TRUE) /\ Returned(result.authz, TRUE)

\* C1: in ALL mode, authorize returns true for a supplied credential if and
\* only if every required role is among the identity's roles.
C1_AllModeRequiresEveryRole ==
    (/\ Handled /\ RolesConfigured /\ app.use_all
     /\ result.auth # NoAuth /\ result.authz.exc = "")
    => (result.authz.val <=> app.roles.roles \subseteq result.auth_roles)

\* C7 as stated: with required roles configured, the handler is invoked only
\* if authenticate and authorize both returned true; every other request
\* receives the error response.
C7_HandlerOnlyIfBothTrue ==
    (Handled /\ RolesConfigured /\ ResolverRegistered)
    => /\ result.outcome = "handler" => BothTrue
       /\ ~BothTrue => result.outcome = "response"

\* C7 as amended: the same for a request whose method is not OPTIONS, on
\* which authenticate and authorize return; the handler is never invoked
\* when one of them raises; an OPTIONS request invokes the handler with
\* neither evaluated.
C7_HandlerOnlyIfBothTrueUnlessOptions ==
    (Handled /\ RolesConfigured)
    => IF request.method = Str("OPTIONS")
       THEN /\ result.outcome = "handler"
            /\ result.authn = Skipped /\ result.authz = Skipped
       ELSE /\ result.outcome = "handler" <=> BothTrue
            /\ result.outcome = "response"
                <=> \/ Returned(result.authn, FALSE)
                    \/ (Returned(result.authn, TRUE) /\ Returned(result.authz, FALSE))

\* C7's case: a request with a true authenticate and a false authorize got
\* the error response.
C7_Witness ==
    /\ Handled /\ RolesConfigured
    /\ Returned(result.authn, TRUE) /\ Returned(result.authz, FALSE)
    /\ result.outcome = "response" /\ result.status = 401

\* C8: authorize, and with it the role resolver, is evaluated for a request
\* only after authenticate returned true for it.
C8_AuthorizeOnlyAfterAuthenticate ==
    (Handled /\ result.authz # Skipped) => Returned(result.authn, TRUE)

\* C8's case: authorize was evaluated on an authenticated request, and the
\* resolver's answer decided it.
C8_Witness ==
    /\ Handled /\ RolesConfigured /\ ResolverRegistered
    /\ Returned(result.authn, TRUE) /\ Returned(result.authz, FALSE)
    /\ result.auth_roles # {}

\* C9: with callbacks that do not raise, every request ends in the handler
\* or in the 401 response, however login_required was applied; no exception
\* leaves decorated.
C9_NoUncaughtError ==
    (Handled /\ ResolverRegistered)
    => \/ result.outcome = "handler"
       \/ result.outcome = "response" /\ result.status = 401

(***************************************************************************)
(* HTTPBasicAuth.authenticate, under SpecBasic                             *)
(***************************************************************************)

\* Lookup callbacks holding john's password, its hash, and its salted hash.
hashed_db == {<<Str("john"), md5(Str("hello"))>>}
salted_db == {<<Str("john"), md5(Str("john") \o Str("hello"))>>}

\* A verify_password callback that accepts a pair the stored secrets do not,
\* and the empty pair it is called with when no credential was supplied.
verify_john == Callback({<<Str("john"), Str("bye")>>, <<<<>>, <<>>>>})

BasicApps ==
    {App("single",
         [HTTPBasicAuth EXCEPT !.users = users, !.hash_password = hash,
                               !.verify_password = verifier],
         <<>>, TRUE, NoRoles, FALSE) :
        users \in {default_get_password, users_db, hashed_db, salted_db},
        hash \in {"", "md5", "salted", "none"},
        verifier \in {Unregistered, verify_john}}

BasicRequests ==
    {Request(method, Str("/"), hc[1], hc[2]) :
        method \in {Str("GET"), Str("OPTIONS")},
        hc \in {<<NoHeader, NoCreds>>, <<<<>>, NoCreds>>,
                <<<<"Basic">>, NoCreds>>, <<<<"Basic", " ">>, NoCreds>>,
                <<BasicHeader, NoCreds>>,
                <<BearerHeader(Str("xyz")), NoCreds>>}
               \cup {<<<<scheme, " ", "dXNlcjpwdw==">>, BasicCreds(username, password)>> :
                      scheme \in {"Basic", "basic", "BASIC"},
                      username \in {Str("john"), Str("mary"), <<>>},
                      password \in {Str("hello"), Str("bye"), <<>>}}}

InitBasic == InitOf(BasicApps, BasicRequests)

\* HTTPBasicAuth.authenticate applied to each set-up and request.
SpecBasic == InitBasic /\ [][Serve]_vars

\* authenticate was evaluated by a Basic authenticator.
BasicEvaluated == Handled /\ app.main_auth.cls = "Basic" /\ result.authn # Skipped

\* The client password after the hash_password callback, if one is registered.
C6_ClientPassword ==
    IF app.main_auth.hash_password = "" THEN result.auth.password
    ELSE hash_password_callback(app.main_auth, result.auth.username,
                                result.auth.password)

\* The decision of C6 given the secret compared with.
C6_Decision(secret) ==
    IF app.main_auth.verify_password.registered
    THEN result.authn.val
            <=> (IF result.auth = NoAuth THEN <<<<>>, <<>>>>
                 ELSE <<result.auth.username, result.auth.password>>)
                \in app.main_auth.verify_password.accepts
    ELSE IF result.auth = NoAuth THEN ~result.authn.val
    ELSE result.authn.val
            <=> /\ C6_ClientPassword # None
                /\ secret # None
                /\ C6_ClientPassword = secret

\* C6 as stated: a registered verify_password callback decides; else no
\* credential fails; else the result is true iff the (hashed) client password
\* and the secret the lookup callback returns for the username are both
\* non-none and equal.
C6_BasicDecision ==
    BasicEvaluated
    => /\ result.authn.exc = ""
       /\ C6_Decision(get_password_callback(app.main_auth, result.auth.username))

\* C6 as amended: the secret compared with is the lookup callback's for a
\* non-empty username, and none for an empty username, for which the lookup
\* callback is not asked.
C6_BasicDecisionNonEmptyUsername ==
    BasicEvaluated
    => /\ result.authn.exc = ""
       /\ C6_Decision(IF result.auth.username = <<>> THEN None
                      ELSE get_password_callback(app.main_auth, result.auth.username))

\* C6's case: a hashed client password that equals the stored secret
\* authenticates, with no verify_password callback.
C6_Witness ==
    /\ BasicEvaluated
    /\ ~app.main_auth.verify_password.registered
    /\ app.main_auth.hash_password = "md5"
    /\ result.auth.username = Str("john")
    /\ Returned(result.authn, TRUE)

(***************************************************************************)
(* Headers                                                                 *)
(***************************************************************************)

\* The longest Authorization header enumerated, in chunks.
MaxHeaderLen == 3

HeaderChars == {" ", "Basic", "Bearer", "bearer", "xyz"}

\* Every header of at most MaxHeaderLen chunks, and no header.
Headers ==
    {NoHeader} \cup UNION {[1..n -> HeaderChars] : n \in 0..MaxHeaderLen}

\* Requests with every header; werkzeug decodes the credentials of a Basic
\* header, or fails to.
HeaderRequests ==
    {Request(method, Str("/"), header, creds) :
        method \in {Str("GET"), Str("OPTIONS")},
        header \in Headers,
        creds \in {NoCreds, BasicCreds(Str("john"), Str("hello"))}}

(***************************************************************************)
(* HTTPTokenAuth.authenticate, under SpecToken                             *)
(***************************************************************************)

\* Token authenticators of scheme Bearer and of scheme Basic, with no
\* verify_token callback, one that accepts xyz, and one that accepts xyz and
\* the empty token.
TokenApps ==
    {App("single",
         [HTTPTokenAuth(Str(scheme)) EXCEPT !.verify_token = verifier],
         <<>>, TRUE, NoRoles, FALSE) :
        scheme \in {"Bearer", "Basic"},
        verifier \in {Unregistered, Callback({Str("xyz")}),
                      Callback({<<>>, Str("xyz")})}}

InitToken == InitOf(TokenApps, HeaderRequests)

\* HTTPTokenAuth.authenticate applied to each set-up and request.
SpecToken == InitToken /\ [][Serve]_vars

TokenEvaluated == Handled /\ app.main_auth.cls = "Token" /\ result.authn # Skipped

\* C3 as stated: the result is false whenever no credential was supplied and
\* whenever no verify_token callback is registered; otherwise it is the
\* callback's result for the raw token.
C3_TokenDecision ==
    (TokenEvaluated /\ result.authn.exc = "")
    => (result.authn.val
            <=> /\ result.auth # NoAuth
                /\ app.main_auth.verify_token.registered
                /\ result.auth.token \in app.main_auth.verify_token.accepts)

\* C3 as amended: the result is false whenever no verify_token callback is
\* registered, and otherwise the callback's result for the raw token, which
\* is the empty string when no credential was supplied; a supplied credential
\* that holds no token (a Basic credential decoded by werkzeug, for an
\* authenticator of scheme Basic) raises KeyError.
C3_TokenDecisionEmptyToken ==
    TokenEvaluated
    => IF result.auth # NoAuth /\ result.auth.token = None
       THEN /\ result.authn.exc = "KeyError"
            /\ Lower(app.main_auth.scheme) = Str("basic")
            /\ request.creds.kind = "basic"
       ELSE /\ result.authn.exc = ""
            /\ result.auth # NoAuth => result.auth.token = Split1(request.header)[2]
            /\ result.authn.val
                <=> /\ app.main_auth.verify_token.registered
                    /\ (IF result.auth = NoAuth THEN <<>> ELSE result.auth.token)
                        \in app.main_auth.verify_token.accepts

\* C3's case: no credential was supplied, and the registered callback's
\* answer for the empty token is the result.
C3_Witness ==
    /\ TokenEvaluated
    /\ result.auth = NoAuth
    /\ app.main_auth.verify_token.registered
    /\ Returned(result.authn, TRUE)

(***************************************************************************)
(* MultiAuth.selected_auth, under SpecMulti                                *)
(***************************************************************************)

\* The longest additional_auth of a MultiAuth in the model.
MaxAdditional == 2

\* Token authenticators to register: two of scheme Bearer, told apart by
\* their callbacks, and one of scheme bearer.
AdditionalAuths ==
    {[HTTPTokenAuth(Str("Bearer")) EXCEPT !.verify_token = Callback({Str("xyz")})],
     [HTTPTokenAuth(Str("Bearer")) EXCEPT !.verify_token = Callback({})],
     [HTTPTokenAuth(Str("bearer")) EXCEPT !.verify_token = Callback({Str("xyz")})]}

MultiApps ==
    {App("MultiAuth", [HTTPBasicAuth EXCEPT !.users = users_db], additional,
         TRUE, NoRoles, FALSE) :
        additional \in UNION {[1..n -> AdditionalAuths] : n \in 0..MaxAdditional}}

InitMulti == InitOf(MultiApps, HeaderRequests)

\* An endpoint behind MultiAuth.login_required, on each set-up and request.
SpecMulti == InitMulti /\ [][Serve]_vars

\* The header has a scheme token and credentials after it.
WellFormed(header) == header # NoHeader /\ Len(Split1(header)) = 2

\* additional_auth[i] has exactly the scheme of the request's header.
SchemeMatches(i) == app.additional_auth[i].scheme = Split1(request.header)[1]

\* C5: selected_auth is the first additional authenticator whose scheme is
\* exactly the header's scheme token, and the primary when there is none or
\* the header is absent or malformed.
C5_SelectedAuth ==
    (Handled /\ app.cls = "MultiAuth")
    => /\ result.selected \in 0..Len(app.additional_auth)
       /\ result.selected > 0
            => /\ WellFormed(request.header)
               /\ SchemeMatches(result.selected)
               /\ \A j \in 1..(result.selected - 1) : ~SchemeMatches(j)
       /\ result.selected = 0
            => \/ ~WellFormed(request.header)
               \/ \A j \in 1..Len(app.additional_auth) : ~SchemeMatches(j)

\* C5's case: header "Bearer xyz" selects the Bearer authenticator registered
\* after one of scheme bearer.
C5_Witness ==
    /\ Handled /\ app.cls = "MultiAuth"
    /\ request.header = <<"Bearer", " ", "xyz">>
    /\ Len(app.additional_auth) = 2
    /\ app.additional_auth[1].scheme = Str("bearer")
    /\ result.selected = 2
    /\ Returned(result.authn, TRUE)

(***************************************************************************)
(* HTTPDigestAuth with the session-backed store, under SpecDigest          *)
(***************************************************************************)

\* The lookup callback of a set-up whose stored secrets are HA1 values.
ha1_db == {<<Str("john"), generate_ha1(HTTPDigestAuth(TRUE), Str("john"), Str("hello"))>>}

\* Digest set-ups: plain passwords or HA1 values stored, and an error body
\* that leaves the WWW-Authenticate header to the authenticator or sets it.
DigestApps ==
    {App("single",
         [HTTPDigestAuth(use_ha1_pw) EXCEPT
            !.users = IF use_ha1_pw THEN ha1_db ELSE users_db,
            !.error_has_header = has_header],
         <<>>, TRUE, NoRoles, FALSE) :
        use_ha1_pw \in BOOLEAN, has_header \in BOOLEAN}

\* The credentials john's client sends for a challenge, its response
\* computed for a method and the uri "/".
Honest(method, nonce, opaque) ==
    DigestCreds(Str("john"), Realm, Str("/"), nonce,
                ClientResponse(Str("john"), Realm, Str("hello"), method, Str("/"),
                               nonce),
                opaque)

\* Credentials with one field empty, absent or wrong.
Flawed ==
    LET n == [k \in 1..1 |-> "r"]
        good == Honest(Str("GET"), n, n).data
    IN  {[kind |-> "digest", data |-> d] :
            d \in {[good EXCEPT !.username = <<>>],
                   [good EXCEPT !.realm = <<>>],
                   [good EXCEPT !.uri = <<>>],
                   [good EXCEPT !.uri = Str("/admin")],
                   [good EXCEPT !.nonce = <<>>],
                   [good EXCEPT !.response = <<>>],
                   [good EXCEPT !.opaque = None],
                   [good EXCEPT !.response =
                        ClientResponse(Str("john"), Realm, Str("bye"), Str("GET"),
                                       Str("/"), n)]}}

DigestRequests ==
    {Request(mp[1], mp[2], hc[1], hc[2]) :
        mp \in {<<Str("GET"), Str("/")>>, <<Str("POST"), Str("/")>>,
                <<Str("OPTIONS"), Str("/")>>, <<Str("GET"), Str("/admin")>>},
        hc \in {<<NoHeader, NoCreds>>}
               \cup {<<DigestHeader, creds>> :
                      creds \in Flawed
                                \cup {Honest(method, nonce, opaque) :
                                        method \in {Str("GET"), Str("POST")},
                                        nonce \in Randoms, opaque \in Randoms}}}

InitDigest == InitOf(DigestApps, {NoRequest})

NextDigest == Serve \/ \E req \in DigestRequests : Receive(req)

\* Requests of one session to an endpoint behind HTTPDigestAuth.
SpecDigest == InitDigest /\ [][NextDigest]_vars

DigestEvaluated == Handled /\ app.main_auth.cls = "Digest" /\ result.authn # Skipped

\* A step in which the endpoint answers the request.
Served == result = NoResult /\ result' # NoResult

\* The conditions of C2 on an evaluation of authenticate, with HA2 computed
\* from the method and the uri given.
C2_Conditions(res, sess, method, uri) ==
    LET ha1 == IF app.main_auth.use_ha1_pw THEN res.password
               ELSE md5(res.auth.username \o Str(":") \o res.auth.realm
                        \o Str(":") \o res.password)
        ha2 == md5(method \o Str(":") \o uri)
    IN  /\ res.auth # NoAuth
        /\ \A k \in {"username", "realm", "uri", "nonce", "response"} :
                ~Falsy(res.auth[k])
        /\ ~Falsy(res.password)
        /\ default_verify_nonce(sess, res.auth.nonce)
        /\ default_verify_opaque(sess, res.auth.opaque)
        /\ res.auth.response
            = md5(ha1 \o Str(":") \o res.auth.nonce \o Str(":") \o ha2)

\* C2: authenticate is true iff no field and no stored secret is empty, the
\* nonce and opaque verifiers accept, and the response is H(HA1:nonce:HA2)
\* with HA2 = H(method:uri) of the method and the URI of the inbound request:
\* a response computed for one URI is not accepted on a request for another.
C2_DigestDecision ==
    [][(Served /\ app.main_auth.cls = "Digest" /\ result'.authn # Skipped)
        => /\ result'.authn.exc = ""
           /\ result'.authn.val
                <=> C2_Conditions(result', session, request.method, request.path)]_vars

\* What the code does where C2 fails: HA2 is computed from the uri field of
\* the credentials, which need not be the URI requested.
C2_DigestDecisionCredentialUri ==
    [][(Served /\ app.main_auth.cls = "Digest" /\ result'.authn # Skipped)
        => /\ result'.authn.exc = ""
           /\ result'.authn.val
                <=> C2_Conditions(result', session, request.method,
                                  result'.auth.uri)]_vars

\* C4: the default verifiers accept a value iff it is the nonce (the opaque)
\* most recently generated in the session; nothing is accepted in a session
\* where nothing was generated.
C4_VerifyAcceptsLatestOnly ==
    \A v \in Randoms \cup {None, <<>>} :
        /\ default_verify_nonce(session, v)
            <=> (generated.nonce # None /\ v = generated.nonce)
        /\ default_verify_opaque(session, v)
            <=> (generated.opaque # None /\ v = generated.opaque)

\* C4's case: a request that carried the nonce of an earlier challenge was
\* refused and answered by a new challenge, whose nonce alone is accepted now.
C4_Witness ==
    /\ DigestEvaluated
    /\ result.auth # NoAuth /\ result.auth.nonce \in Randoms
    /\ result.outcome = "response"
    /\ generated.nonce # result.auth.nonce
    /\ default_verify_nonce(session, generated.nonce)
    /\ ~default_verify_nonce(session, result.auth.nonce)

\* C10 as stated: a successful Digest authentication leaves the session's
\* nonce and opaque unchanged, and credentials accepted once are accepted on
\* every later request that carries them, until a new challenge is emitted.
C10_AcceptedAgain ==
    [][Served =>
        /\ DigestAccepted(app, result') => session' = session
        /\ (\E a \in accepted : a.creds = request.creds)
            => result'.outcome = "handler"]_vars

\* C10 as amended: credentials accepted once are accepted on every later
\* request of the same method that carries them, until a new challenge is
\* emitted; only the emission of a challenge changes the session.
C10_AcceptedAgainSameMethod ==
    [][Served =>
        /\ DigestAccepted(app, result') => session' = session
        /\ session' # session => Challenged(app, result')
        /\ (\E a \in accepted : a.creds = request.creds /\ a.method = request.method)
            => DigestAccepted(app, result') /\ result'.outcome = "handler"]_vars

\* C10's case: credentials accepted before were sent again and passed.
C10_Witness ==
    /\ DigestEvaluated
    /\ Returned(result.authn, TRUE) /\ result.outcome = "handler"
    /\ \E a \in accepted :
        a.again /\ a.creds = request.creds /\ a.method = request.method
    /\ session = [auth_nonce |-> generated.nonce, auth_opaque |-> generated.opaque]

====
